---- MODULE Spec2Model ----
(***************************************************************************)
(* Model of the repo-exporter scripts (src/export_repos.py, with the same  *)
(* reconciliation code in src/hf_repo_exporter.py):                        *)
(*   - the display-name codec (the HYPERLINK formula and                   *)
(*     extract_display_name),                                              *)
(*   - update_google_sheet: row reconciliation and conditional formatting, *)
(*   - the attribute extractor get_repo_info and its helpers.              *)
(* Cell strings are sequences of one-character strings, so that the        *)
(* regular expression of extract_display_name is computed character by     *)
(* character. Column names are atoms (TLA+ strings): the code only         *)
(* compares them for equality.                                             *)
(***************************************************************************)
EXTENDS Integers, Sequences, FiniteSets, TLC

VARIABLES
    \* ---- display-name codec ----
    codec_pc,       \* "start" | "built" | "done"
    codec_src,      \* how the cell is produced: a plain string, or (n, u) for a formula
    codec_val,      \* the cell string handed to extract_display_name
    codec_out,      \* what extract_display_name returned
    \* ---- update_google_sheet ----
    sheet,          \* the spreadsheet: [rows: all rows, row 1 first; formats: its rules]
    df,             \* the fresh batch: the DataFrame main hands over, one record per row
    pc,             \* position in update_google_sheet
    header,         \* local: sheet.row_values(HEADER_ROW_INDEX)
    repo_col_index, \* local: header.index("Repository Name"), 0-based
    existing,       \* local: sheet.get_all_values(), grown by the blank rows appended
    name_to_row,    \* local: decoded name -> row position
    rec_i,          \* local: the next record of df.iterrows(), 1-based
    batch_body,     \* local: the cell writes collected so far
    rules,          \* local: the formatting requests built
    n_read,         \* history: len(existing) as read from the sheet
    row_idxs,       \* history: row_idx of every record processed so far
    emitted,        \* history: the cell writes emitted for every record processed so far
    calls,          \* history: the calls made on the sheet, in order
    sheet0,         \* history: the spreadsheet as it was before the first run
    past,           \* history: the earlier runs on this sheet, one record per finished run
    \* ---- main ----
    exporter,       \* which script runs: "github" (export_repos.py) or "huggingface"
    org,            \* the organization: what listing it and fetching its repositories does
    main_pc,        \* position in main
    repos,          \* local: the repositories listed
    repo_i,         \* local: the next repository of the loop, 1-based
    data,           \* local: the records collected
    skipped,        \* history: the names of the repositories logged as skipped
    \* ---- a second run of update_google_sheet on the same sheet ----
    other,          \* the locals of the other run: its position, batch, rows read and writes
    \* ---- attribute extraction ----
    repo,           \* the repository handle: what each of its API calls does
    file_result,    \* outcome of has_file(repo, "CITATION.cff")
    doi_result,     \* outcome of has_doi(repo)
    info_result     \* outcome of get_repo_info(repo)

codec_vars == <<codec_pc, codec_src, codec_val, codec_out>>

sheet_vars == <<sheet, df, pc, header, repo_col_index, existing, name_to_row, rec_i,
                batch_body, rules, n_read, row_idxs, emitted, calls, sheet0, past>>

main_vars == <<exporter, org, main_pc, repos, repo_i, data, skipped>>

extract_vars == <<repo, file_result, doi_result, info_result>>

race_vars == <<other>>

vars == <<codec_vars, sheet_vars, extract_vars, main_vars, race_vars>>

(***************************************************************************)
(* Bounds                                                                  *)
(***************************************************************************)
MaxLen == 4        \* longest plain cell string / display name of the codec runs
MaxUrlLen == 2     \* longest URL of the codec runs
MaxCols == 3       \* most columns of the sheet's header row
MaxRows == 2       \* most data rows the sheet holds when a run starts
MaxRecs == 2       \* most records of a fresh batch
MaxRepos == 2      \* most repositories the organization lists
MaxRuns == 2       \* most runs made one after the other on one sheet

(***************************************************************************)
(* Strings                                                                 *)
(***************************************************************************)
QUOTE == "\""
RPAREN == ")"
NEWLINE == "\n"

\* all sequences over S of length at most n
StrsUpTo(S, n) == UNION {[1..k -> S] : k \in 0..n}

Min(S) == CHOOSE x \in S : \A y \in S : x <= y

(***************************************************************************)
(* Display-name codec                                                      *)
(***************************************************************************)
\* f'=HYPERLINK("{url}", "{name}")'
Hyperlink(url, name) ==
    <<"=", "H", "Y", "P", "E", "R", "L", "I", "N", "K", "(", QUOTE>>
        \o url \o <<QUOTE, ",", " ", QUOTE>> \o name \o <<QUOTE, RPAREN>>

\* Python's $ (no MULTILINE): position p (the index of the next character to
\* read) is the end of the string, or just before a newline that ends it.
AtDollar(val, p) ==
    \/ p = Len(val) + 1
    \/ p = Len(val) /\ val[p] = NEWLINE

\* a plausible slip: "(.+)"\)$, the label may run over quote characters
MatchesFromTo_AnyChar(val, i, k) ==
    /\ val[i] = QUOTE
    /\ k > i + 1
    /\ val[k] = QUOTE
    /\ k + 1 <= Len(val) /\ val[k + 1] = RPAREN
    /\ AtDollar(val, k + 2)

\* the pattern "([^"]+)"\)$ matches starting at index i with the closing quote at k
MatchesFromTo(val, i, k) ==
    /\ val[i] = QUOTE
    /\ k > i + 1                                   \* [^"]+ : at least one character
    /\ \A j \in (i + 1)..(k - 1) : val[j] # QUOTE  \* [^"]
    /\ val[k] = QUOTE
    /\ k + 1 <= Len(val) /\ val[k + 1] = RPAREN
    /\ AtDollar(val, k + 2)

\* where the pattern's tail "\)$ can sit: the closing quote of a match
ClosingQuotes(val) ==
    {k \in 1..Len(val) : val[k] = QUOTE /\ k + 1 <= Len(val) /\ val[k + 1] = RPAREN
                            /\ AtDollar(val, k + 2)}

MatchStarts(val) ==
    LET closing == ClosingQuotes(val)
    IN  IF closing = {}
        THEN {}
        ELSE {i \in 1..Len(val) : \E k \in closing : MatchesFromTo(val, i, k)}

\* re.search(r'"([^"]+)"\)$', val): the leftmost match, group(1); else val
extract_display_name(val) ==
    LET starts == MatchStarts(val)
    IN  IF starts = {}
        THEN val
        ELSE LET i == Min(starts)
                 k == CHOOSE k \in ClosingQuotes(val) : MatchesFromTo(val, i, k)
             IN  SubSeq(val, i + 1, k - 1)

\* the variables of update_google_sheet, at rest while another part is checked
SheetIdle ==
    /\ sheet = [rows |-> <<>>, formats |-> <<>>]
    /\ df = <<>>
    /\ pc = "idle"
    /\ header = <<>>
    /\ repo_col_index = 0
    /\ existing = <<>>
    /\ name_to_row = <<>>
    /\ rec_i = 0
    /\ batch_body = <<>>
    /\ rules = <<>>
    /\ n_read = 0
    /\ row_idxs = <<>>
    /\ emitted = <<>>
    /\ calls = <<>>
    /\ sheet0 = sheet
    /\ past = <<>>

\* the variables of main, at rest while another part is checked
MainIdle ==
    /\ exporter = "github"
    /\ org = <<>>
    /\ main_pc = "idle"
    /\ repos = <<>>
    /\ repo_i = 0
    /\ data = <<>>
    /\ skipped = <<>>

\* no other run
OtherIdle ==
    other = [pc |-> "idle", df |-> <<>>, header |-> <<>>, n_read |-> 0,
             batch_body |-> <<>>, row_idxs |-> <<>>]

\* the outcome of a call: it returned a value, or it raised an exception
Returned(v) == [kind |-> "returned", value |-> v, exc |-> "none"]
Raised(e) == [kind |-> "raised", value |-> <<>>, exc |-> e]
NotCalled == [kind |-> "pending", value |-> <<>>, exc |-> "none"]

\* the variables of the attribute extraction, at rest while another part is checked
ExtractIdle ==
    /\ repo = <<>>
    /\ file_result = NotCalled
    /\ doi_result = NotCalled
    /\ info_result = NotCalled

(***************************************************************************)
(* Codec runs: a cell is built (a plain string, or the formula of a name   *)
(* and a URL) and then decoded.                                            *)
(***************************************************************************)
NameChars == {"a", RPAREN, NEWLINE}      \* characters of a display name: no quote
Chars == NameChars \cup {QUOTE}
UrlChars == {"u", QUOTE}

NoStr == <<>>

CodecInputs ==
    {[kind |-> "plain", s |-> s, n |-> NoStr, u |-> NoStr] : s \in StrsUpTo(Chars, MaxLen)}
    \cup
    {[kind |-> "formula", s |-> NoStr, n |-> n, u |-> u] :
        n \in StrsUpTo(NameChars, MaxLen), u \in StrsUpTo(UrlChars, MaxUrlLen)}

CodecIdle ==
    /\ codec_pc = "idle"
    /\ codec_src = [kind |-> "plain", s |-> NoStr, n |-> NoStr, u |-> NoStr]
    /\ codec_val = NoStr
    /\ codec_out = NoStr

CodecInit ==
    /\ SheetIdle
    /\ ExtractIdle
    /\ MainIdle
    /\ OtherIdle
    /\ codec_pc = "start"
    /\ codec_src \in CodecInputs
    /\ codec_val = NoStr
    /\ codec_out = NoStr

\* get_repo_info builds the "Repository Name" cell; a plain cell is what the
\* sheet holds otherwise
BuildCell ==
    /\ codec_pc = "start"
    /\ codec_val' = IF codec_src.kind = "formula"
                    THEN Hyperlink(codec_src.u, codec_src.n)
                    ELSE codec_src.s
    /\ codec_pc' = "built"
    /\ UNCHANGED <<codec_src, codec_out>>
    /\ UNCHANGED <<sheet_vars, extract_vars, main_vars, race_vars>>

Decode ==
    /\ codec_pc = "built"
    /\ codec_out' = extract_display_name(codec_val)
    /\ codec_pc' = "done"
    /\ UNCHANGED <<codec_src, codec_val>>
    /\ UNCHANGED <<sheet_vars, extract_vars, main_vars, race_vars>>

CodecNext == BuildCell \/ Decode

SpecCodec == CodecInit /\ [][CodecNext]_vars

\* the shape =HYPERLINK("<url>", "<label>")
HyperlinkPrefix == Hyperlink(NoStr, NoStr)
IsHyperlinkFormula(val) ==
    /\ Len(val) >= Len(HyperlinkPrefix)
    /\ SubSeq(val, 1, 12) = SubSeq(HyperlinkPrefix, 1, 12)
    /\ SubSeq(val, Len(val) - 1, Len(val)) = <<QUOTE, RPAREN>>
    /\ \E m \in 13..(Len(val) - 5) : SubSeq(val, m, m + 3) = <<QUOTE, ",", " ", QUOTE>>

\* C4 (as stated): for every display name n without a double quote, the empty
\* name included, and every URL u, decoding =HYPERLINK("u", "n") returns n.
C4_RoundTripAnyName ==
    (codec_pc = "done" /\ codec_src.kind = "formula") => codec_out = codec_src.n

\* C4 (amended): for every NON-EMPTY display name n without a double quote and
\* every URL u, decoding =HYPERLINK("u", "n") returns exactly n.
C4_RoundTripNonEmptyName ==
    (codec_pc = "done" /\ codec_src.kind = "formula" /\ codec_src.n # NoStr)
        => codec_out = codec_src.n

\* a formula whose URL itself holds a quote has been decoded to its name
C4_Witness ==
    /\ codec_pc = "done"
    /\ codec_src.kind = "formula"
    /\ codec_src.n = <<"a", RPAREN>>
    /\ codec_src.u = <<QUOTE, "u">>
    /\ codec_out = codec_src.n

\* C5: every cell string that is not a hyperlink formula, whatever characters
\* it ends with, is returned unchanged by extract_display_name.
C5_PlainCellUnchanged ==
    (codec_pc = "done" /\ ~IsHyperlinkFormula(codec_val)) => codec_out = codec_val

(***************************************************************************)
(* update_google_sheet: the sheet, the batch and the helpers               *)
(***************************************************************************)
HEADER_ROW_INDEX == 2

REPOSITORY_NAME == "Repository Name"

\* the formatted column sets, in the order the model iterates them (a Python
\* set has no order of its own; nothing below depends on the order chosen)
red_columns == <<"README", "License", ".gitignore", "Package Requirements", "CITATION">>

orange_columns ==
    <<".zenodo.json", "CONTRIBUTING", "AGENTS", "Website Reference", "Dataset",
      "Model", "Paper Association", "DOI for GitHub Repo">>

\* background colours, in tenths
RED_FILL == [red |-> 10, green |-> 5, blue |-> 5]
ORANGE_FILL == [red |-> 10, green |-> 8, blue |-> 4]

\* column names a header cell is drawn from: the identity column, a red one,
\* an orange one, and one the exporter knows nothing of
HeaderNames == {REPOSITORY_NAME, "License", "Model", "Notes"}

\* df.columns: the keys of the records (a few of those get_repo_info returns;
\* "Stars" is one the bounded headers never hold)
DfColumns == {REPOSITORY_NAME, "License", "Model", "Stars"}

YES == <<"Y", "e", "s">>
NO == <<"N", "o">>
OLD == <<"o", "l", "d">>       \* what a cell held before the run
SEVEN == <<"7">>
BLANK == <<>>                  \* the empty string ""
URL == <<"u">>
RepoNames == {<<"a">>, <<"b">>}

\* characters in code-point order, for the comparison sort_values makes
AsciiOrder ==
    <<NEWLINE, " ", QUOTE, "(", RPAREN, ",", "7", "=", "E", "H", "I", "K", "L", "N",
      "P", "R", "Y", "a", "b", "d", "e", "l", "o", "s", "t", "u">>

Ord(c) == CHOOSE k \in 1..Len(AsciiOrder) : AsciiOrder[k] = c

\* x <= y as Python compares str
StrLeq(x, y) ==
    \/ x = y
    \/ \E k \in 1..(Len(y)) :
          /\ \A j \in 1..(k - 1) : j <= Len(x) /\ x[j] = y[j]
          /\ \/ k = Len(x) + 1
             \/ k <= Len(x) /\ Ord(x[k]) < Ord(y[k])

\* one record of get_repo_info, as far as the bounded columns go
Record(name, license) ==
    [c \in DfColumns |->
        CASE c = REPOSITORY_NAME -> Hyperlink(URL, name)
          [] c = "License" -> license
          [] c = "Model" -> NO
          [] OTHER -> SEVEN]

Records == {Record(n, l) : n \in RepoNames, l \in {YES, NO}}

\* main: df = pd.DataFrame(data); df.sort_values(by="Repository Name")
\* (data is not empty, and equal keys may come in either order)
BatchesUpTo(n) ==
    {b \in UNION {[1..k -> Records] : k \in 1..n} :
        \A j \in 1..(Len(b) - 1) : StrLeq(b[j][REPOSITORY_NAME], b[j + 1][REPOSITORY_NAME])}

\* the identity cell of an existing row: the label as the sheet shows it, or
\* the formula as it was entered
IdCells == {<<"a">>, Hyperlink(URL, <<"b">>)}

\* every header of at most n columns, repeated names included
HeadersUpTo(n) == UNION {[1..k -> HeaderNames] : k \in 1..n}

\* the headers the reconciliation runs start from: the identity column first,
\* the identity column after a column the exporter does not know, and no
\* identity column at all
ReconcileHeaders ==
    {<<REPOSITORY_NAME, "License">>,
     <<"Notes", REPOSITORY_NAME, "License">>,
     <<"License", "Model">>}

FullRow(hdr, idcell) ==
    [c \in 1..Len(hdr) |-> IF hdr[c] = REPOSITORY_NAME THEN idcell ELSE OLD]

\* a data row may be shorter than the header (trailing blanks are not returned)
RowsOf(hdr) == {SubSeq(FullRow(hdr, id), 1, k) : id \in IdCells, k \in 0..Len(hdr)}

TITLE_ROW == << <<"t">> >>

\* the rows below the header: get_all_values() ends at the last row that holds
\* anything, so a blank row is never the last one
DataRowsOf(hdr, maxrows) ==
    {d \in StrsUpTo(RowsOf(hdr), maxrows) : d = <<>> \/ d[Len(d)] # <<>>}

SheetsOver(hdrs, maxrows) ==
    UNION {{[rows |-> <<TITLE_ROW, hdr>> \o d, formats |-> <<>>] :
               d \in DataRowsOf(hdr, maxrows)} : hdr \in hdrs}

\* the runs checked: many rows and records over a few headers, and every
\* header of up to MaxCols columns over at most one row and one record
RunInputs ==
    (SheetsOver(ReconcileHeaders, MaxRows) \X BatchesUpTo(MaxRecs))
    \cup (SheetsOver(HeadersUpTo(MaxCols), 1) \X BatchesUpTo(1))

\* sheet.row_values(r)
row_values(sh, r) == IF r <= Len(sh.rows) THEN sh.rows[r] ELSE <<>>

\* sheet.get_all_values()
get_all_values(sh) == sh.rows

\* list.index: the first position of x, 0-based (x occurs in seq)
ListIndex(seq, x) == Min({k \in 1..Len(seq) : seq[k] = x}) - 1

Range(seq) == {seq[k] : k \in 1..Len(seq)}

\* dict assignment d[key] = v
DictPut(d, key, v) == [x \in (DOMAIN d) \cup {key} |-> IF x = key THEN v ELSE d[x]]

EmptyDict == <<>>

\* a plausible slip: the index keyed by the cell as read, not by the decoded name
IndexKey_Raw(cell) == cell

\* the key a sheet cell is indexed under
IndexKey(cell) == extract_display_name(cell)

\* a plausible slip: enumerate(data_rows, start=HEADER_ROW_INDEX), one row too high
RECURSIVE IndexRows_FromHeaderRow(_, _, _, _)
IndexRows_FromHeaderRow(data_rows, k, col, acc) ==
    IF k > Len(data_rows)
    THEN acc
    ELSE IndexRows_FromHeaderRow(data_rows, k + 1, col,
            IF Len(data_rows[k]) <= col
            THEN acc
            ELSE DictPut(acc, IndexKey(data_rows[k][col + 1]), HEADER_ROW_INDEX + k - 1))

\* for offset, row in enumerate(data_rows, start=HEADER_ROW_INDEX + 1): ...
RECURSIVE IndexRows(_, _, _, _)
IndexRows(data_rows, k, col, acc) ==
    IF k > Len(data_rows)
    THEN acc
    ELSE IndexRows(data_rows, k + 1, col,
            IF Len(data_rows[k]) <= col
            THEN acc                                   \* row too short: ignored
            ELSE DictPut(acc, IndexKey(data_rows[k][col + 1]), HEADER_ROW_INDEX + k))

\* a plausible slip: the new row placed on the last row instead of after it
NewRowPosition_OnLast(rows) == Len(rows)

\* row_idx = len(existing) + 1
NewRowPosition(rows) == Len(rows) + 1

\* a plausible slip: every record is appended, matched or not
RowIdx_AlwaysNew(repo_name, index, rows) == NewRowPosition(rows)

\* if repo_name in name_to_row: row_idx = name_to_row[repo_name] else: new row
RowIdx(repo_name, index, rows) ==
    IF repo_name \in DOMAIN index THEN index[repo_name] ELSE NewRowPosition(rows)

\* a plausible slip: a write for every header column, in df.columns or not
\* (row.get(col_name, "") gives "" for a column the record lacks)
ColumnWritten_All(col_name) == TRUE

\* if col_name not in df.columns: continue
ColumnWritten(col_name) == col_name \in DfColumns

RowGet(rec, col_name) == IF col_name \in DOMAIN rec THEN rec[col_name] ELSE BLANK

\* for col_idx, col_name in enumerate(header, start=1): one write per column kept
RECURSIVE WritesFor(_, _, _, _)
WritesFor(rec, row_idx, hdr, col_idx) ==
    IF col_idx > Len(hdr)
    THEN <<>>
    ELSE (IF ColumnWritten(hdr[col_idx])
          THEN << [row |-> row_idx, col |-> col_idx, value |-> RowGet(rec, hdr[col_idx])] >>
          ELSE <<>>)
         \o WritesFor(rec, row_idx, hdr, col_idx + 1)

\* a plausible slip: batch_body.insert(0, ...), later writes placed first
ExtendBatch_Front(body, writes) == writes \o body

\* batch_body.append(...) for each write, in order
ExtendBatch(body, writes) == body \o writes

PadTo(seq, n, x) == seq \o [j \in 1..(n - Len(seq)) |-> x]

\* one cell set by values_batch_update: the grid grows as far as the cell needs
SetCell(rows, w) ==
    LET grown == PadTo(rows, w.row, <<>>)
        line == PadTo(grown[w.row], w.col, BLANK)
    IN  [grown EXCEPT ![w.row] = [line EXCEPT ![w.col] = w.value]]

\* values_batch_update applies the data entries in the order given
RECURSIVE ApplyWrites(_, _)
ApplyWrites(rows, body) ==
    IF body = <<>> THEN rows ELSE ApplyWrites(SetCell(rows, Head(body)), Tail(body))

\* a plausible slip: -1 for a missing column, as str.find would give
get_column_index_Find(hdr, col_name) ==
    IF col_name \in Range(hdr) THEN <<ListIndex(hdr, col_name)>> ELSE <<-1>>

\* get_column_index: <<index>>, or <<>> for None
get_column_index(hdr, col_name) ==
    IF col_name \in Range(hdr) THEN <<ListIndex(hdr, col_name)>> ELSE <<>>

\* the addConditionalFormatRule request of one column
FormatRule(col_index, color, n_records) ==
    [startRowIndex |-> HEADER_ROW_INDEX,
     endRowIndex |-> HEADER_ROW_INDEX + n_records,
     startColumnIndex |-> col_index,
     endColumnIndex |-> col_index + 1,
     condition |-> NO,
     color |-> color,
     index |-> 0]

\* for col_name in col_set: skip the missing columns, one rule for the others
RECURSIVE RulesFor(_, _, _, _, _)
RulesFor(col_set, k, color, hdr, n_records) ==
    IF k > Len(col_set)
    THEN <<>>
    ELSE LET col_index == get_column_index(hdr, col_set[k])
         IN  (IF col_index = <<>>
              THEN <<>>
              ELSE << FormatRule(col_index[1], color, n_records) >>)
             \o RulesFor(col_set, k + 1, color, hdr, n_records)

\* a plausible slip: the rules of the sheet replaced by those of the run
InsertRules_Replace(formats, requests) == requests

\* batch_update: every request inserts its rule at index 0 of the sheet's rules
RECURSIVE InsertRules(_, _)
InsertRules(formats, requests) ==
    IF requests = <<>>
    THEN formats
    ELSE InsertRules(<<Head(requests)>> \o formats, Tail(requests))

(***************************************************************************)
(* update_google_sheet: the steps                                          *)
(***************************************************************************)
Init ==
    /\ CodecIdle
    /\ ExtractIdle
    /\ MainIdle
    /\ OtherIdle
    /\ \E input \in RunInputs : sheet = input[1] /\ df = input[2]
    /\ pc = "start"
    /\ header = <<>>
    /\ repo_col_index = 0
    /\ existing = <<>>
    /\ name_to_row = EmptyDict
    /\ rec_i = 0
    /\ batch_body = <<>>
    /\ rules = <<>>
    /\ n_read = 0
    /\ row_idxs = <<>>
    /\ emitted = <<>>
    /\ calls = <<>>
    /\ sheet0 = sheet
    /\ past = <<>>

\* header = sheet.row_values(HEADER_ROW_INDEX); repo_col_index = header.index(...)
ReadHeader ==
    /\ pc = "start"
    /\ header' = row_values(sheet, HEADER_ROW_INDEX)
    /\ REPOSITORY_NAME \in Range(header')
    /\ repo_col_index' = ListIndex(header', REPOSITORY_NAME)
    /\ pc' = "header_read"
    /\ calls' = Append(calls, "row_values")
    /\ UNCHANGED <<sheet, df, existing, name_to_row, rec_i, batch_body, rules,
                   n_read, row_idxs, emitted, sheet0, past>>
    /\ UNCHANGED <<codec_vars, extract_vars, main_vars, race_vars>>

\* a plausible slip: no identity column, the first column taken in its place
ReadHeaderMissingColumn_FirstColumn ==
    /\ pc = "start"
    /\ header' = row_values(sheet, HEADER_ROW_INDEX)
    /\ REPOSITORY_NAME \notin Range(header')
    /\ repo_col_index' = 0
    /\ pc' = "header_read"
    /\ calls' = Append(calls, "row_values")
    /\ UNCHANGED <<sheet, df, existing, name_to_row, rec_i, batch_body, rules,
                   n_read, row_idxs, emitted, sheet0, past>>
    /\ UNCHANGED <<codec_vars, extract_vars, main_vars, race_vars>>

\* raise ValueError('Sheet is missing "Repository Name" column')
ReadHeaderMissingColumn ==
    /\ pc = "start"
    /\ header' = row_values(sheet, HEADER_ROW_INDEX)
    /\ REPOSITORY_NAME \notin Range(header')
    /\ pc' = "raised"
    /\ calls' = Append(calls, "row_values")
    /\ UNCHANGED <<sheet, df, repo_col_index, existing, name_to_row, rec_i, batch_body,
                   rules, n_read, row_idxs, emitted, sheet0, past>>
    /\ UNCHANGED <<codec_vars, extract_vars, main_vars, race_vars>>

\* existing = sheet.get_all_values(); the name -> row index is built
ReadRows ==
    /\ pc = "header_read"
    /\ existing' = get_all_values(sheet)
    /\ name_to_row' = IndexRows(SubSeq(existing', HEADER_ROW_INDEX + 1, Len(existing')),
                                1, repo_col_index, EmptyDict)
    /\ n_read' = Len(existing')
    /\ batch_body' = <<>>
    /\ rec_i' = 1
    /\ pc' = "loop"
    /\ calls' = Append(calls, "get_all_values")
    /\ UNCHANGED <<sheet, df, header, repo_col_index, rules, row_idxs, emitted, sheet0, past>>
    /\ UNCHANGED <<codec_vars, extract_vars, main_vars, race_vars>>

\* one turn of: for _, row in df.iterrows()
ProcessRecord ==
    /\ pc = "loop"
    /\ rec_i <= Len(df)
    /\ LET row == df[rec_i]
           repo_name == extract_display_name(row[REPOSITORY_NAME])
           row_idx == RowIdx(repo_name, name_to_row, existing)
           writes == WritesFor(row, row_idx, header, 1)
       IN  /\ existing' = IF repo_name \in DOMAIN name_to_row
                          THEN existing
                          ELSE Append(existing, [c \in 1..Len(header) |-> BLANK])
           /\ batch_body' = ExtendBatch(batch_body, writes)
           /\ row_idxs' = Append(row_idxs, row_idx)
           /\ emitted' = Append(emitted, writes)
    /\ rec_i' = rec_i + 1
    /\ UNCHANGED <<sheet, df, pc, header, repo_col_index, name_to_row, rules, n_read,
                   calls, sheet0, past>>
    /\ UNCHANGED <<codec_vars, extract_vars, main_vars, race_vars>>

\* a plausible slip: the writes flushed when the last record is still to be processed
SubmitWrites_BeforeLastRecord ==
    /\ pc = "loop"
    /\ rec_i >= Len(df)
    /\ sheet' = [sheet EXCEPT !.rows = ApplyWrites(sheet.rows, batch_body)]
    /\ pc' = "written"
    /\ calls' = Append(calls, "values_batch_update")
    /\ UNCHANGED <<df, header, repo_col_index, existing, name_to_row, rec_i, batch_body,
                   rules, n_read, row_idxs, emitted, sheet0, past>>
    /\ UNCHANGED <<codec_vars, extract_vars, main_vars, race_vars>>

\* sheet.spreadsheet.values_batch_update(body={..., "data": batch_body})
SubmitWrites ==
    /\ pc = "loop"
    /\ rec_i > Len(df)
    /\ sheet' = [sheet EXCEPT !.rows = ApplyWrites(sheet.rows, batch_body)]
    /\ pc' = "written"
    /\ calls' = Append(calls, "values_batch_update")
    /\ UNCHANGED <<df, header, repo_col_index, existing, name_to_row, rec_i, batch_body,
                   rules, n_read, row_idxs, emitted, sheet0, past>>
    /\ UNCHANGED <<codec_vars, extract_vars, main_vars, race_vars>>

\* the rules are built and sheet.spreadsheet.batch_update({"requests": rules}) is called
SubmitFormat ==
    /\ pc = "written"
    /\ rules' = RulesFor(red_columns, 1, RED_FILL, header, Len(df))
                    \o RulesFor(orange_columns, 1, ORANGE_FILL, header, Len(df))
    /\ sheet' = [sheet EXCEPT !.formats = InsertRules(sheet.formats, rules')]
    /\ pc' = "done"
    /\ calls' = Append(calls, "batch_update")
    /\ UNCHANGED <<df, header, repo_col_index, existing, name_to_row, rec_i, batch_body,
                   n_read, row_idxs, emitted, sheet0, past>>
    /\ UNCHANGED <<codec_vars, extract_vars, main_vars, race_vars>>

Next ==
    \/ ReadHeader
    \/ ReadHeaderMissingColumn
    \/ ReadRows
    \/ ProcessRecord
    \/ SubmitWrites
    \/ SubmitFormat

Spec == Init /\ [][Next]_vars

(***************************************************************************)
(* Properties of update_google_sheet                                       *)
(***************************************************************************)
Reconciling == pc \in {"loop", "written", "done"}
Submitted == pc \in {"written", "done"}

\* the records processed so far
Processed == 1..Len(row_idxs)

\* the positions of the data rows read that hold the identity column
IndexedPositions ==
    {p \in (HEADER_ROW_INDEX + 1)..n_read : Len(existing[p]) > repo_col_index}

RowName(p) == extract_display_name(existing[p][repo_col_index + 1])

RecName(k) == extract_display_name(df[k][REPOSITORY_NAME])

RowsNamed(name) == {p \in IndexedPositions : RowName(p) = name}

Matched(k) == RowsNamed(RecName(k)) # {}

Unmatched(upto) == {j \in 1..upto : ~Matched(j)}

Max(S) == CHOOSE x \in S : \A y \in S : x >= y

\* C1: a fresh record whose decoded name equals the decoded name of an existing
\* data row has all its cell writes on an existing row of that name (the last
\* one, should several rows carry the name), and no row is allocated for it:
\* the rows allocated are as many as the records that match no row.
C1_MatchedUpdatedInPlace ==
    Reconciling =>
        /\ \A k \in Processed :
              Matched(k) =>
                 /\ row_idxs[k] \in RowsNamed(RecName(k))
                 /\ row_idxs[k] = Max(RowsNamed(RecName(k)))
                 /\ row_idxs[k] <= n_read
                 /\ \A m \in 1..Len(emitted[k]) : emitted[k][m].row = row_idxs[k]
        /\ Len(existing) - n_read = Cardinality(Unmatched(Len(row_idxs)))

\* a record has been written onto the second data row, whose cell holds the
\* formula of the same name, while another record of the batch was appended
C1_Witness ==
    /\ pc = "done"
    /\ Len(existing) > n_read
    /\ \E k \in Processed :
          /\ Matched(k)
          /\ row_idxs[k] = HEADER_ROW_INDEX + 2
          /\ existing[row_idxs[k]][repo_col_index + 1] = Hyperlink(URL, <<"b">>)
          /\ Len(emitted[k]) = 2

\* C2: the records that match no existing row get, in processing order, the
\* consecutive positions n_read + 1, n_read + 2, ...: strictly increasing,
\* pairwise distinct, and greater than every position read from the sheet
\* (the first one is right after the header when the sheet has no data rows).
C2_UnmatchedAppendedConsecutively ==
    Reconciling =>
        /\ n_read >= HEADER_ROW_INDEX
        /\ \A k \in Processed :
              ~Matched(k) =>
                 /\ row_idxs[k] = n_read + Cardinality(Unmatched(k))
                 /\ row_idxs[k] > n_read
                 /\ \A j \in 1..(k - 1) : ~Matched(j) => row_idxs[j] < row_idxs[k]

\* two records of different names were appended below a sheet that already
\* held a data row
C2_Witness ==
    /\ pc = "done"
    /\ n_read = HEADER_ROW_INDEX + 1
    /\ Len(df) = 2
    /\ ~Matched(1) /\ ~Matched(2)
    /\ RecName(1) # RecName(2)
    /\ row_idxs = <<HEADER_ROW_INDEX + 2, HEADER_ROW_INDEX + 3>>

\* the writes of record k at header position c
WritesAt(k, c) == {m \in 1..Len(emitted[k]) : emitted[k][m].col = c}

\* every cell read from the sheet that no submitted write addresses is as it was
UnwrittenCellsSurvive ==
    Submitted =>
        \A p \in 1..n_read : \A c \in 1..Len(existing[p]) :
            (\A m \in 1..Len(batch_body) : ~(batch_body[m].row = p /\ batch_body[m].col = c))
                => (/\ p <= Len(sheet.rows)
                    /\ c <= Len(sheet.rows[p])
                    /\ sheet.rows[p][c] = existing[p][c])

\* C3 (as stated): a write is emitted only for a column name that is in the
\* records and in the header; each record column present in the header gets
\* exactly one write, at the header index of that name; cells of the other
\* header columns keep their content.
C3_OneWritePerSharedName ==
    Reconciling =>
        /\ \A k \in Processed :
              /\ \A m \in 1..Len(emitted[k]) : header[emitted[k][m].col] \in DfColumns
              /\ \A name \in DfColumns \cap Range(header) :
                    /\ Cardinality({m \in 1..Len(emitted[k]) :
                                      header[emitted[k][m].col] = name}) = 1
                    /\ WritesAt(k, ListIndex(header, name) + 1) # {}
        /\ UnwrittenCellsSurvive

\* C3 (amended): a write is emitted only for a column name that is in the
\* records and in the header; a record column gets exactly one write, carrying
\* the record's value, at EVERY header position that holds its name (so exactly
\* one write when the header holds the name once); a header column absent
\* from the records gets no write and its cells keep their content.
C3_OneWritePerSharedPosition ==
    Reconciling =>
        /\ \A k \in Processed :
              /\ \A m \in 1..Len(emitted[k]) :
                    /\ emitted[k][m].col \in 1..Len(header)
                    /\ header[emitted[k][m].col] \in DfColumns
                    /\ emitted[k][m].value = df[k][header[emitted[k][m].col]]
                    /\ emitted[k][m].row = row_idxs[k]
              /\ \A c \in 1..Len(header) :
                    Cardinality(WritesAt(k, c)) = (IF header[c] \in DfColumns THEN 1 ELSE 0)
        /\ UnwrittenCellsSurvive

\* a matched row under the header Notes | Repository Name | License: the
\* License cell took the record's value and the Notes cell kept its content
C3_Witness ==
    /\ pc = "done"
    /\ header = <<"Notes", REPOSITORY_NAME, "License">>
    /\ \E k \in Processed :
          /\ Matched(k)
          /\ Len(emitted[k]) = 2
          /\ existing[row_idxs[k]] = <<OLD, <<"a">>, OLD>>
          /\ sheet.rows[row_idxs[k]] = <<OLD, df[k][REPOSITORY_NAME], df[k]["License"]>>

\* the last record processed among those written to the same row as record k
LastOnRow(k) == Max({j \in Processed : row_idxs[j] = row_idxs[k]})

ConfiguredPresent == (Range(red_columns) \cup Range(orange_columns)) \cap Range(header)

RulesOnColumn(col_index) == {m \in 1..Len(rules) : rules[m].startColumnIndex = col_index}

\* C7: the formatting step ends without an error and emits exactly one rule
\* for each configured column name that occurs in the header, on that column
\* and with the colour of the set the name belongs to, and no rule for a
\* configured name the header does not hold.
C7_OneRulePerConfiguredColumn ==
    pc = "done" =>
        /\ Len(rules) = Cardinality(ConfiguredPresent)
        /\ \A name \in ConfiguredPresent :
              /\ Cardinality(RulesOnColumn(ListIndex(header, name))) = 1
              /\ \A m \in RulesOnColumn(ListIndex(header, name)) :
                    /\ rules[m].endColumnIndex = rules[m].startColumnIndex + 1
                    /\ rules[m].color = (IF name \in Range(red_columns)
                                         THEN RED_FILL ELSE ORANGE_FILL)
        /\ \A m \in 1..Len(rules) :
              /\ rules[m].startColumnIndex \in 0..(Len(header) - 1)
              /\ header[rules[m].startColumnIndex + 1] \in ConfiguredPresent

\* a header with a red and an orange column: two rules, one of each colour,
\* and none for the eleven configured names the header lacks
C7_Witness ==
    /\ pc = "done"
    /\ header = <<REPOSITORY_NAME, "Model", "License">>
    /\ rules = <<FormatRule(2, RED_FILL, Len(df)), FormatRule(1, ORANGE_FILL, Len(df))>>

\* C8: every rule emitted covers exactly the data rows known at
\* reconciliation: from the first row after the header to the last data row,
\* the rows appended in the run included (0-based, end exclusive).
C8_RulesCoverDataRows ==
    pc = "done" =>
        \A m \in 1..Len(rules) :
            /\ rules[m].startRowIndex = HEADER_ROW_INDEX
            /\ rules[m].endRowIndex = Len(existing)

(***************************************************************************)
(* Attribute extraction: the repository handle                             *)
(***************************************************************************)
NA == <<"N", "/", "A">>
PUBLIC == <<"P", "u", "b", "l", "i", "c">>
PRIVATE == <<"P", "r", "i", "v", "a", "t", "e">>
A_DATE == <<"2", "0", "2", "4", "-", "0", "1", "-", "0", "1">>
A_PERSON == <<"A", "d", "a", " ", "(", "a", "d", "a", ")">>
A_LANGUAGE == <<"P", "y", "t", "h", "o", "n">>

\* what a call on the handle can do when it does not return: GithubException
\* is what PyGithub raises (a 404 included); FileNotFoundError stands for any
\* exception that is not a GithubException, as in tests/test_has_doi_for_repo.py
GITHUB_EXCEPTION == "GithubException"
OTHER_EXCEPTION == "FileNotFoundError"
Failures == {GITHUB_EXCEPTION, OTHER_EXCEPTION}

CITATION_CFF == "CITATION.cff"
REQUIREMENT_PATHS == <<"requirements.txt", "environment.yaml", "environment.yml", "pyproject.toml">>
AllPaths ==
    {".gitignore", CITATION_CFF, ".zenodo.json", "CONTRIBUTING.md", "AGENTS.md"}
        \cup Range(REQUIREMENT_PATHS)

\* parsed YAML values (what yaml.safe_load returns)
YStr(str) == [t |-> "str", s |-> str, d |-> <<>>, l |-> <<>>]
YInt == [t |-> "int", s |-> "", d |-> <<>>, l |-> <<>>]
YNone == [t |-> "none", s |-> "", d |-> <<>>, l |-> <<>>]
YDict(dict) == [t |-> "dict", s |-> "", d |-> dict, l |-> <<>>]
YList(list) == [t |-> "list", s |-> "", d |-> <<>>, l |-> list]
\* a file yaml.safe_load (or the utf-8 decoding before it) raises on
YInvalid == [t |-> "invalid", s |-> "", d |-> <<>>, l |-> <<>>]

A_DOI == "10.5281/zenodo.11288083"
BLANK_STR == "   "

\* str.strip() leaves something
StripNonEmpty(str) == str \notin {"", BLANK_STR}

\* str.lower(), on the strings the citation files hold
Lower(str) == IF str = "DOI" THEN "doi" ELSE str

\* the CITATION.cff files a handle may hold (the cases of the repository's tests)
CitationFiles ==
    {YDict("title" :> YStr("KABR Tools") @@ "doi" :> YStr(A_DOI)),
     YDict("title" :> YStr("Test")
           @@ "identifiers" :> YList(<<YDict("type" :> YStr("doi") @@ "value" :> YStr(A_DOI))>>)),
     YDict("title" :> YStr("Test") @@ "identifiers" :> YList(<<YDict("doi" :> YStr(A_DOI))>>)),
     YDict("title" :> YStr("Test") @@ "references" :> YList(<<YDict("doi" :> YStr(A_DOI))>>)),
     YDict("title" :> YStr("Test") @@ "version" :> YStr("1.0.0")),
     YDict("title" :> YStr("Test") @@ "doi" :> YStr(BLANK_STR)),
     YDict("title" :> YStr("Test")
           @@ "identifiers" :> YList(<<YDict("type" :> YStr("DOI") @@ "value" :> YStr(A_DOI))>>)),
     YDict("title" :> YStr("Test")
           @@ "identifiers" :> YList(<<YDict("type" :> YInt @@ "value" :> YStr(A_DOI))>>)),
     YDict("title" :> YStr("Test")
           @@ "identifiers" :> YList(<<YDict("type" :> YInt @@ "doi" :> YStr(A_DOI))>>)),
     YDict("title" :> YStr("Test")
           @@ "identifiers" :> YList(<<YDict("type" :> YNone @@ "value" :> YStr("x")),
                                       YDict("type" :> YStr("doi") @@ "value" :> YStr(A_DOI))>>)),
     YList(<<>>),
     YInvalid}

LookupOutcomes == {"found"} \cup Failures

\* the lookup of CITATION.cff with the file it decodes to when it is found
CitationLookups == ({"found"} \X CitationFiles) \cup (Failures \X {YNone})

\* the repository handles: what each call on the handle does. The lookups of
\* CITATION.cff and requirements.txt, get_readme and get_license return or
\* raise; the other paths are absent (a 404); the listing calls return or raise.
RepoHandles ==
    {[name |-> <<"a">>,
      html_url |-> URL,
      description |-> "None",
      homepage |-> "None",
      private |-> FALSE,
      fork |-> FALSE,
      updated_recently |-> TRUE,
      get_readme |-> rd,
      readme_text |-> "links",
      get_license |-> lic,
      get_contents |-> [path \in AllPaths |->
                          CASE path = CITATION_CFF -> cit[1]
                            [] path = "requirements.txt" -> req
                            [] OTHER -> GITHUB_EXCEPTION],
      citation |-> cit[2],
      get_branches |-> br,
      get_commits |-> cm,
      get_stats_contributors |-> st,
      get_languages |-> lg] :
        rd \in LookupOutcomes, lic \in LookupOutcomes, cit \in CitationLookups,
        req \in LookupOutcomes,
        br \in {"ok", "raises"}, cm \in {"ok", "raises"},
        st \in {"ok", "empty", "raises"}, lg \in {"ok", "raises"}}

(***************************************************************************)
(* Attribute extraction: the helpers                                       *)
(***************************************************************************)
IsRaised(out) == out.kind = "raised"

\* except GithubException: what has_file, has_readme and has_license catch
Caught(exc) == exc = GITHUB_EXCEPTION

\* has_file: for path in paths: try: if repo.get_contents(path): return "Yes"
\*                               except GithubException: continue
RECURSIVE has_file_from(_, _, _)
has_file_from(r, paths, k) ==
    IF k > Len(paths)
    THEN Returned(NO)
    ELSE LET got == r.get_contents[paths[k]]
         IN  CASE got = "found" -> Returned(YES)
               [] got \in Failures /\ Caught(got) -> has_file_from(r, paths, k + 1)
               [] got \in Failures /\ ~Caught(got) -> Raised(got)
               [] OTHER -> has_file_from(r, paths, k + 1)      \* a falsy result

has_file(r, paths) == has_file_from(r, paths, 1)

\* has_readme: "Yes", "No" on GithubException; anything else propagates
has_readme(r) ==
    CASE r.get_readme = "found" -> Returned(YES)
      [] Caught(r.get_readme) -> Returned(NO)
      [] OTHER -> Raised(r.get_readme)

has_license(r) ==
    CASE r.get_license = "found" -> Returned(YES)
      [] Caught(r.get_license) -> Returned(NO)
      [] OTHER -> Raised(r.get_license)

\* get_num_branches: bare except
get_num_branches(r) == IF r.get_branches = "ok" THEN Returned(SEVEN) ELSE Returned(NA)

\* get_repo_creator: except Exception
get_repo_creator(r) == IF r.get_commits = "ok" THEN Returned(A_PERSON) ELSE Returned(NA)

\* get_top_contributors: up to five polls of get_stats_contributors, "N/A"
\* when they stay empty or one raises
get_top_contributors(r) ==
    IF r.get_stats_contributors = "ok" THEN Returned(A_PERSON) ELSE Returned(NA)

get_primary_language(r) ==
    IF r.get_languages = "ok" THEN Returned(A_LANGUAGE) ELSE Returned(NA)

is_inactive(r) == IF r.updated_recently THEN Returned(NO) ELSE Returned(YES)

\* the identifiers loop of has_doi: "Yes", "No", or "raise" when
\* identifier.get("type", "").lower() is called on a value that is not a str
RECURSIVE ScanIdentifiers(_, _)
ScanIdentifiers(ids, k) ==
    IF k > Len(ids)
    THEN "No"
    ELSE LET identifier == ids[k]
             isdict == identifier.t = "dict"
             type == IF isdict /\ "type" \in DOMAIN identifier.d
                     THEN identifier.d["type"] ELSE YStr("")
         IN  CASE isdict /\ type.t # "str" -> "raise"
               [] isdict /\ Lower(type.s) = "doi"
                    /\ "value" \in DOMAIN identifier.d
                    /\ identifier.d["value"].t = "str"
                    /\ StripNonEmpty(identifier.d["value"].s) -> "Yes"
               [] isdict /\ "doi" \in DOMAIN identifier.d
                    /\ identifier.d["doi"].t = "str"
                    /\ StripNonEmpty(identifier.d["doi"].s) -> "Yes"
               [] OTHER -> ScanIdentifiers(ids, k + 1)

\* the body of has_doi's try block on the parsed file
DoiInData(doc) ==
    CASE doc.t = "invalid" -> "raise"
      [] doc.t # "dict" -> "No"
      [] "doi" \in DOMAIN doc.d /\ doc.d["doi"].t = "str"
            /\ StripNonEmpty(doc.d["doi"].s) -> "Yes"
      [] OTHER ->
            LET identifiers == IF "identifiers" \in DOMAIN doc.d
                               THEN doc.d["identifiers"] ELSE YList(<<>>)
            IN  IF identifiers.t = "list" THEN ScanIdentifiers(identifiers.l, 1) ELSE "No"

\* has_doi: the whole body is in try ... except Exception: return "No"
has_doi(r) ==
    IF r.get_contents[CITATION_CFF] # "found"
    THEN Returned(NO)
    ELSE IF DoiInData(r.citation) = "Yes" THEN Returned(YES) ELSE Returned(NO)

\* readme_content_lower: "" when get_readme raises anything
ReadmeContentLower(r) == IF r.get_readme = "found" THEN r.readme_text ELSE ""

\* get_dataset, get_model, get_associated_paper: a link found in the README
\* gives the formula, otherwise "No"
LinkIn(readme) == IF readme = "links" THEN Returned(Hyperlink(URL, YES)) ELSE Returned(NO)

get_dataset(readme, repo_name) == LinkIn(readme)

get_model(readme) == LinkIn(readme)

get_associated_paper(readme) == LinkIn(readme)

\* def get_model(readme: str): the parameters it declares
get_model_params == <<"readme">>

\* get_model(readme_content_lower, repo.homepage): the arguments of the call
get_model_args(r) == <<ReadmeContentLower(r), r.homepage>>

\* a Python call: TypeError when the positional arguments are not the parameters
CallGetModel(args) ==
    IF Len(args) # Len(get_model_params) THEN Raised("TypeError") ELSE get_model(args[1])

\* the keys of the dict get_repo_info returns, in the order they are evaluated
InfoKeys ==
    <<REPOSITORY_NAME, "Description", "Date Created", "Last Updated", "Created By",
      "Top 4 Contributors (lines of code changes)", "Stars", "# of Branches", "README",
      "License", ".gitignore", "Package Requirements", "CITATION", ".zenodo.json",
      "CONTRIBUTING", "AGENTS", "Language", "Visibility", "Forks", "Inactive",
      "Website Reference", "Dataset", "Model", "Paper Association", "DOI for GitHub Repo">>

\* the expression of one key
InfoField(r, key) ==
    CASE key = REPOSITORY_NAME -> Returned(Hyperlink(r.html_url, r.name))
      [] key = "Description" -> Returned(IF r.description = "None" THEN NA ELSE r.description)
      [] key = "Date Created" -> Returned(A_DATE)
      [] key = "Last Updated" -> Returned(A_DATE)
      [] key = "Created By" -> get_repo_creator(r)
      [] key = "Top 4 Contributors (lines of code changes)" -> get_top_contributors(r)
      [] key = "Stars" -> Returned(SEVEN)
      [] key = "# of Branches" -> get_num_branches(r)
      [] key = "README" -> has_readme(r)
      [] key = "License" -> has_license(r)
      [] key = ".gitignore" -> has_file(r, <<".gitignore">>)
      [] key = "Package Requirements" -> has_file(r, REQUIREMENT_PATHS)
      [] key = "CITATION" -> has_file(r, <<CITATION_CFF>>)
      [] key = ".zenodo.json" -> has_file(r, <<".zenodo.json">>)
      [] key = "CONTRIBUTING" -> has_file(r, <<"CONTRIBUTING.md">>)
      [] key = "AGENTS" -> has_file(r, <<"AGENTS.md">>)
      [] key = "Language" -> get_primary_language(r)
      [] key = "Visibility" -> Returned(IF r.private THEN PRIVATE ELSE PUBLIC)
      [] key = "Forks" -> Returned(IF r.fork THEN YES ELSE NO)
      [] key = "Inactive" -> is_inactive(r)
      [] key = "Website Reference" ->
            Returned(IF r.homepage = "None" THEN NO ELSE Hyperlink(r.homepage, YES))
      [] key = "Dataset" -> get_dataset(ReadmeContentLower(r), r.name)
      [] key = "Model" -> CallGetModel(get_model_args(r))
      [] key = "Paper Association" -> get_associated_paper(ReadmeContentLower(r))
      [] key = "DOI for GitHub Repo" -> has_doi(r)

\* get_repo_info: the dict display is evaluated key by key; the first
\* expression that raises ends the call with its exception
get_repo_info(r) ==
    LET raising == {k \in 1..Len(InfoKeys) : IsRaised(InfoField(r, InfoKeys[k]))}
    IN  IF raising # {}
        THEN Raised(InfoField(r, InfoKeys[Min(raising)]).exc)
        ELSE Returned([key \in Range(InfoKeys) |-> InfoField(r, key).value])

(***************************************************************************)
(* Attribute extraction: the calls                                         *)
(***************************************************************************)
ExtractInit ==
    /\ CodecIdle
    /\ SheetIdle
    /\ MainIdle
    /\ OtherIdle
    /\ repo \in RepoHandles
    /\ file_result = NotCalled
    /\ doi_result = NotCalled
    /\ info_result = NotCalled

\* "CITATION": has_file(repo, "CITATION.cff")
CallHasFile ==
    /\ repo # <<>>
    /\ file_result = NotCalled
    /\ file_result' = has_file(repo, <<CITATION_CFF>>)
    /\ UNCHANGED <<repo, doi_result, info_result>>
    /\ UNCHANGED <<codec_vars, sheet_vars, main_vars, race_vars>>

\* "DOI for GitHub Repo": has_doi(repo)
CallHasDoi ==
    /\ repo # <<>>
    /\ doi_result = NotCalled
    /\ doi_result' = has_doi(repo)
    /\ UNCHANGED <<repo, file_result, info_result>>
    /\ UNCHANGED <<codec_vars, sheet_vars, main_vars, race_vars>>

\* info = get_repo_info(repo)
CallGetRepoInfo ==
    /\ repo # <<>>
    /\ info_result = NotCalled
    /\ info_result' = get_repo_info(repo)
    /\ UNCHANGED <<repo, file_result, doi_result>>
    /\ UNCHANGED <<codec_vars, sheet_vars, main_vars, race_vars>>

ExtractNext == CallHasFile \/ CallHasDoi \/ CallGetRepoInfo

SpecExtract == ExtractInit /\ [][ExtractNext]_vars

\* C9: get_repo_info is total: for every repository handle it returns a
\* complete record and never raises.
C9_GetRepoInfoNeverRaises ==
    info_result.kind # "pending" =>
        /\ info_result.kind = "returned"
        /\ DOMAIN info_result.value = Range(InfoKeys)

\* C10: when the lookup of CITATION.cff throws, whatever the exception, both
\* has_file(repo, "CITATION.cff") and has_doi(repo) return "No" and nothing is
\* propagated to the caller.
C10_CitationLookupFailureGivesNo ==
    repo.get_contents[CITATION_CFF] \in Failures =>
        /\ file_result.kind # "pending" => file_result = Returned(NO)
        /\ doi_result.kind # "pending" => doi_result = Returned(NO)

(***************************************************************************)
(* Properties of has_doi                                                   *)
(***************************************************************************)
NonBlankStr(v) == v.t = "str" /\ v.s \notin {"", BLANK_STR}

\* an entry of the identifiers list that names a DOI
NamesDoi(entry) ==
    /\ entry.t = "dict"
    /\ \/ /\ "type" \in DOMAIN entry.d
          /\ entry.d["type"].t = "str"
          /\ entry.d["type"].s \in {"doi", "DOI"}
          /\ "value" \in DOMAIN entry.d
          /\ NonBlankStr(entry.d["value"])
       \/ /\ "doi" \in DOMAIN entry.d
          /\ NonBlankStr(entry.d["doi"])

\* the file is a mapping with a top-level DOI or an identifiers entry naming one
CitesDoi(doc) ==
    /\ doc.t = "dict"
    /\ \/ "doi" \in DOMAIN doc.d /\ NonBlankStr(doc.d["doi"])
       \/ /\ "identifiers" \in DOMAIN doc.d
          /\ doc.d["identifiers"].t = "list"
          /\ \E k \in 1..Len(doc.d["identifiers"].l) : NamesDoi(doc.d["identifiers"].l[k])

\* C11: has_doi returns "Yes" exactly when CITATION.cff parses to a mapping
\* whose top-level doi is a non-blank string, or one of whose identifiers
\* entries is a mapping with type doi (any case) and a non-blank string value,
\* or has a non-blank string doi key; in every other case it returns "No".
C11_HasDoiYesExactlyWhenCited ==
    doi_result.kind # "pending" =>
        doi_result = Returned(IF /\ repo.get_contents[CITATION_CFF] = "found"
                                 /\ CitesDoi(repo.citation)
                              THEN YES ELSE NO)

(***************************************************************************)
(* main: the organization, the repositories and the records                *)
(***************************************************************************)
GITHUB == "github"
HUGGINGFACE == "huggingface"

\* the GitHub handles of the runs of main: every call on them succeeds but the
\* lookup of CITATION.cff, which fails one way or the other
MainHandles ==
    {h \in RepoHandles :
        /\ h.get_readme = "found" /\ h.get_license = "found"
        /\ h.get_contents["requirements.txt"] = "found"
        /\ h.get_contents[CITATION_CFF] \in Failures
        /\ h.get_branches = "ok" /\ h.get_commits = "ok"
        /\ h.get_stats_contributors = "ok" /\ h.get_languages = "ok"}

\* what org.get_repos() yields: the handle itself, nothing is fetched per repository
GithubListed == {[info |-> "ok", repo |-> [h EXCEPT !.name = n]] : n \in RepoNames, h \in MainHandles}

\* what api.list_models() yields: api.model_info(m.id) then returns or raises
HfListed ==
    {[info |-> i, repo |-> [name |-> n, repo_type |-> "model", license |-> "None"]] :
        n \in RepoNames, i \in {"ok", "raises"}}

\* the organizations: get_organization and the listing return or raise
Orgs(listed) ==
    {[access |-> "ok", listing |-> "ok", entries |-> e] : e \in StrsUpTo(listed, MaxRepos)}
    \cup {[access |-> "ok", listing |-> "raises", entries |-> <<>>]}

GithubOrgs == Orgs(GithubListed) \cup {[access |-> "raises", listing |-> "ok", entries |-> <<>>]}

HfOrgs == Orgs(HfListed)

\* get_license of hf_repo_exporter.py: the licence found, else "No"
hf_get_license(r) == IF r.license = "None" THEN NO ELSE r.license

\* get_repo_info of hf_repo_exporter.py, as far as the bounded columns go:
\* every helper returns its sentinel on failure, the call returns
hf_get_repo_info(r, repo_type) == Returned(Record(r.name, hf_get_license(r)))

\* the columns of a GitHub record the bounded batch keeps
AsRecord(info) == [c \in DfColumns |-> info[c]]

\* info = get_repo_info(repo), whichever script runs
ExtractInfo(which, r) ==
    IF which = GITHUB
    THEN LET out == get_repo_info(r)
         IN  IF IsRaised(out) THEN out ELSE Returned(AsRecord(out.value))
    ELSE hf_get_repo_info(r, r.repo_type)

\* the listing of main. export_repos.py: get_organization is guarded (error
\* printed, return), list(org.get_repos()) is not. hf_repo_exporter.py: the
\* list_* loops and the *_info call of every repository sit in one try
\* (error printed, return).
ListingOutcome(which, o) ==
    IF which = GITHUB
    THEN CASE o.access = "raises" -> "aborted"
           [] o.listing = "raises" -> "crashed"
           [] OTHER -> "fetching"
    ELSE IF o.listing = "raises" \/ \E k \in 1..Len(o.entries) : o.entries[k].info = "raises"
         THEN "aborted"
         ELSE "fetching"

\* df.sort_values(by="Repository Name"): the records in the order of their
\* keys; the default sort is not stable, equal keys come in either order
SortedByName(recs) ==
    {b \in [1..Len(recs) -> Range(recs)] :
        /\ \E f \in [1..Len(recs) -> 1..Len(recs)] :
              /\ \A i, j \in 1..Len(recs) : i # j => f[i] # f[j]
              /\ \A i \in 1..Len(recs) : b[i] = recs[f[i]]
        /\ \A j \in 1..(Len(b) - 1) : StrLeq(b[j][REPOSITORY_NAME], b[j + 1][REPOSITORY_NAME])}

\* the sheets the runs of main start from
MainSheets == SheetsOver(ReconcileHeaders, 1)

(***************************************************************************)
(* main: the steps                                                         *)
(***************************************************************************)
MainInit ==
    /\ CodecIdle
    /\ ExtractIdle
    /\ OtherIdle
    /\ sheet \in MainSheets
    /\ sheet0 = sheet
    /\ past = <<>>
    /\ df = <<>>
    /\ pc = "idle"
    /\ header = <<>>
    /\ repo_col_index = 0
    /\ existing = <<>>
    /\ name_to_row = EmptyDict
    /\ rec_i = 0
    /\ batch_body = <<>>
    /\ rules = <<>>
    /\ n_read = 0
    /\ row_idxs = <<>>
    /\ emitted = <<>>
    /\ calls = <<>>
    /\ \/ exporter = GITHUB /\ org \in GithubOrgs
       \/ exporter = HUGGINGFACE /\ org \in HfOrgs
    /\ main_pc = "start"
    /\ repos = <<>>
    /\ repo_i = 0
    /\ data = <<>>
    /\ skipped = <<>>

\* the organization is reached and its repositories are listed
ListRepos ==
    /\ main_pc = "start"
    /\ ListingOutcome(exporter, org) = "fetching"
    /\ repos' = [k \in 1..Len(org.entries) |-> org.entries[k].repo]
    /\ repo_i' = 1
    /\ main_pc' = "fetching"
    /\ UNCHANGED <<exporter, org, data, skipped>>
    /\ UNCHANGED <<codec_vars, sheet_vars, extract_vars, race_vars>>

\* the listing fails: main returns after printing the error, or the exception
\* leaves main
ListReposFails ==
    /\ main_pc = "start"
    /\ ListingOutcome(exporter, org) # "fetching"
    /\ main_pc' = ListingOutcome(exporter, org)
    /\ UNCHANGED <<exporter, org, repos, repo_i, data, skipped>>
    /\ UNCHANGED <<codec_vars, sheet_vars, extract_vars, race_vars>>

\* one turn of: for repo in repos: try: info = get_repo_info(repo);
\* data.append(info) except Exception: the repository is logged and skipped
FetchRepo ==
    /\ main_pc = "fetching"
    /\ repo_i <= Len(repos)
    /\ LET out == ExtractInfo(exporter, repos[repo_i])
       IN  IF IsRaised(out)
           THEN /\ skipped' = Append(skipped, repos[repo_i].name)
                /\ data' = data
           ELSE /\ data' = Append(data, out.value)
                /\ skipped' = skipped
    /\ repo_i' = repo_i + 1
    /\ UNCHANGED <<exporter, org, main_pc, repos>>
    /\ UNCHANGED <<codec_vars, sheet_vars, extract_vars, race_vars>>

\* if not data: print("ERROR: No data collected"); return
NoData ==
    /\ main_pc = "fetching"
    /\ repo_i > Len(repos)
    /\ data = <<>>
    /\ main_pc' = "no_data"
    /\ UNCHANGED <<exporter, org, repos, repo_i, data, skipped>>
    /\ UNCHANGED <<codec_vars, sheet_vars, extract_vars, race_vars>>

\* df = pd.DataFrame(data); df.sort_values(...); update_google_sheet(df) is entered
CallUpdate ==
    /\ main_pc = "fetching"
    /\ repo_i > Len(repos)
    /\ data # <<>>
    /\ df' \in SortedByName(data)
    /\ pc' = "start"
    /\ main_pc' = "updating"
    /\ UNCHANGED <<sheet, header, repo_col_index, existing, name_to_row, rec_i, batch_body,
                   rules, n_read, row_idxs, emitted, calls, sheet0, past>>
    /\ UNCHANGED <<exporter, org, repos, repo_i, data, skipped>>
    /\ UNCHANGED <<codec_vars, extract_vars, race_vars>>

\* update_google_sheet: the credentials are refused or the sheet cannot be opened
OpenSheetFails ==
    /\ pc = "start"
    /\ pc' = "unreachable"
    /\ UNCHANGED <<sheet, df, header, repo_col_index, existing, name_to_row, rec_i,
                   batch_body, rules, n_read, row_idxs, emitted, calls, sheet0, past>>
    /\ UNCHANGED <<codec_vars, extract_vars, main_vars, race_vars>>

\* values_batch_update raises: the request was refused, or it was applied and
\* its answer was lost
SubmitWritesFails ==
    /\ pc = "loop"
    /\ rec_i > Len(df)
    /\ sheet' \in {sheet, [sheet EXCEPT !.rows = ApplyWrites(sheet.rows, batch_body)]}
    /\ pc' = "write_failed"
    /\ calls' = Append(calls, "values_batch_update")
    /\ UNCHANGED <<df, header, repo_col_index, existing, name_to_row, rec_i, batch_body,
                   rules, n_read, row_idxs, emitted, sheet0, past>>
    /\ UNCHANGED <<codec_vars, extract_vars, main_vars, race_vars>>

\* batch_update raises: the rules were refused, or applied and the answer lost
SubmitFormatFails ==
    /\ pc = "written"
    /\ rules' = RulesFor(red_columns, 1, RED_FILL, header, Len(df))
                    \o RulesFor(orange_columns, 1, ORANGE_FILL, header, Len(df))
    /\ sheet' \in {sheet, [sheet EXCEPT !.formats = InsertRules(sheet.formats, rules')]}
    /\ pc' = "format_failed"
    /\ calls' = Append(calls, "batch_update")
    /\ UNCHANGED <<df, header, repo_col_index, existing, name_to_row, rec_i, batch_body,
                   n_read, row_idxs, emitted, sheet0, past>>
    /\ UNCHANGED <<codec_vars, extract_vars, main_vars, race_vars>>

\* update_google_sheet returned: the summary is printed
MainFinish ==
    /\ main_pc = "updating"
    /\ pc = "done"
    /\ main_pc' = "finished"
    /\ UNCHANGED <<exporter, org, repos, repo_i, data, skipped>>
    /\ UNCHANGED <<codec_vars, sheet_vars, extract_vars, race_vars>>

\* update_google_sheet raised: nothing in main catches it
MainUpdateRaises ==
    /\ main_pc = "updating"
    /\ pc \in {"raised", "unreachable", "write_failed", "format_failed"}
    /\ main_pc' = "crashed"
    /\ UNCHANGED <<exporter, org, repos, repo_i, data, skipped>>
    /\ UNCHANGED <<codec_vars, sheet_vars, extract_vars, race_vars>>

MainNext ==
    \/ ListRepos
    \/ ListReposFails
    \/ FetchRepo
    \/ NoData
    \/ CallUpdate
    \/ OpenSheetFails
    \/ ReadHeader
    \/ ReadHeaderMissingColumn
    \/ ReadRows
    \/ ProcessRecord
    \/ SubmitWrites
    \/ SubmitWritesFails
    \/ SubmitFormat
    \/ SubmitFormatFails
    \/ MainFinish
    \/ MainUpdateRaises

SpecMain == MainInit /\ [][MainNext]_vars

(***************************************************************************)
(* Properties of main                                                      *)
(***************************************************************************)
\* main has ended before its loop over the repositories
EndedAtListing == main_pc \in {"aborted", "crashed"} /\ repo_i = 0

\* the listing itself failed: the organization or its list of repositories
\* could not be fetched
ListingFailed == org.access = "raises" \/ org.listing = "raises"

\* the loop over the repositories has run to its end
LoopDone == main_pc \in {"no_data", "updating", "finished"} \/ (main_pc = "crashed" /\ repo_i > 0)

\* the record is on some row of the sheet
Reconciled(rec) ==
    \E p \in (HEADER_ROW_INDEX + 1)..Len(sheet.rows) :
        /\ Len(sheet.rows[p]) > repo_col_index
        /\ sheet.rows[p][repo_col_index + 1] = rec[REPOSITORY_NAME]

\* C12: a failure while fetching or extracting a single repository never ends
\* the run: the run ends before its loop only when the listing failed, every
\* listed repository is then either extracted or logged as skipped, and once
\* main has finished the records extracted are on the sheet.
C12_SingleRepoFailureNeverAborts ==
    /\ EndedAtListing => ListingFailed
    /\ LoopDone => Len(data) + Len(skipped) = Len(org.entries)
    /\ main_pc = "finished" => \A k \in 1..Len(data) : Reconciled(data[k])

\* the calls that change the sheet
WriteCalls == {"values_batch_update", "batch_update"}

CallsMade(names) == {m \in 1..Len(calls) : calls[m] \in names}

\* the header row the run starts from has no identity column
MissingIdentityColumn == REPOSITORY_NAME \notin Range(row_values(sheet0, HEADER_ROW_INDEX))

\* C13: when the repository list cannot be fetched, or the sheet header has no
\* "Repository Name" column, the run never finishes and ends before any cell
\* write or formatting rule is submitted: the spreadsheet is as it was.
C13_FatalLeavesSheetUnchanged ==
    (ListingFailed \/ MissingIdentityColumn) =>
        /\ CallsMade(WriteCalls) = {}
        /\ sheet = sheet0
        /\ main_pc # "finished"
        /\ pc \notin {"loop", "written", "done", "write_failed", "format_failed"}

\* two records were collected and update_google_sheet raised on a header
\* without the identity column, after reading it
C13_Witness ==
    /\ main_pc = "crashed"
    /\ pc = "raised"
    /\ MissingIdentityColumn
    /\ Len(df) = 2
    /\ calls = <<"row_values">>
    /\ Len(sheet.rows) > HEADER_ROW_INDEX

\* the calls of a run of update_google_sheet, in order
RunCalls == <<"row_values", "get_all_values", "values_batch_update", "batch_update">>

\* C14: in a run that reaches reconciliation the sheet is read once, before
\* any write; the cell writes go in exactly one call, made after every record
\* has been processed; the formatting rules go in exactly one call, made after
\* the cell-write call; nothing is submitted while records are being
\* processed, and no formatting is submitted when the cell-write call failed.
C14_ReadOnceThenWriteThenFormat ==
    /\ Len(calls) <= Len(RunCalls)
    /\ calls = SubSeq(RunCalls, 1, Len(calls))
    /\ CallsMade(WriteCalls) # {} =>
          /\ rec_i > Len(df)
          /\ Len(row_idxs) = Len(df)
          /\ CallsMade({"get_all_values"}) # {}
    /\ (pc = "loop" /\ rec_i <= Len(df)) => calls = SubSeq(RunCalls, 1, 2)
    /\ pc = "write_failed" => calls = SubSeq(RunCalls, 1, 3)
    /\ pc \in {"done", "format_failed"} => calls = RunCalls
    /\ (pc = "loop" /\ rec_i > Len(df)) => Len(batch_body) >= Len(df)

\* a run over two records has made its four calls and main has finished
C14_Witness ==
    /\ main_pc = "finished"
    /\ pc = "done"
    /\ Len(df) = 2
    /\ Len(batch_body) = 4
    /\ calls = RunCalls

(***************************************************************************)
(* Runs made one after the other on the same sheet (the scheduled job)     *)
(***************************************************************************)
\* the batch of a later run: the same repositories again, or a single one
NextBatches(batch) == {batch} \cup BatchesUpTo(1)

RunsInit ==
    /\ CodecIdle
    /\ ExtractIdle
    /\ MainIdle
    /\ OtherIdle
    /\ sheet \in MainSheets
    /\ sheet0 = sheet
    /\ past = <<>>
    /\ df \in BatchesUpTo(MaxRecs)
    /\ pc = "start"
    /\ header = <<>>
    /\ repo_col_index = 0
    /\ existing = <<>>
    /\ name_to_row = EmptyDict
    /\ rec_i = 0
    /\ batch_body = <<>>
    /\ rules = <<>>
    /\ n_read = 0
    /\ row_idxs = <<>>
    /\ emitted = <<>>
    /\ calls = <<>>

\* the next scheduled run: update_google_sheet is entered again, on the sheet
\* as the finished run left it
StartRun ==
    /\ pc = "done"
    /\ Len(past) < MaxRuns - 1
    /\ past' = Append(past, [df |-> df, rules |-> rules, row_idxs |-> row_idxs,
                             rows |-> sheet.rows, calls |-> calls])
    /\ df' \in NextBatches(df)
    /\ pc' = "start"
    /\ header' = <<>>
    /\ repo_col_index' = 0
    /\ existing' = <<>>
    /\ name_to_row' = EmptyDict
    /\ rec_i' = 0
    /\ batch_body' = <<>>
    /\ rules' = <<>>
    /\ n_read' = 0
    /\ row_idxs' = <<>>
    /\ emitted' = <<>>
    /\ calls' = <<>>
    /\ UNCHANGED <<sheet, sheet0>>
    /\ UNCHANGED <<codec_vars, extract_vars, main_vars, race_vars>>

RunsNext ==
    \/ ReadHeader
    \/ ReadHeaderMissingColumn
    \/ ReadRows
    \/ ProcessRecord
    \/ SubmitWrites
    \/ SubmitFormat
    \/ StartRun

SpecRuns == RunsInit /\ [][RunsNext]_vars

(***************************************************************************)
(* Properties of runs made one after the other                             *)
(***************************************************************************)
Reverse(seq) == [k \in 1..Len(seq) |-> seq[Len(seq) + 1 - k]]

\* the formatting requests of the first n finished runs, in the order submitted
RECURSIVE PastRules(_)
PastRules(n) == IF n = 0 THEN <<>> ELSE PastRules(n - 1) \o past[n].rules

\* C15: formatting rules are additive across runs: a run only inserts rules,
\* so the sheet holds every rule of every earlier run, none removed or
\* replaced, and after n finished runs it holds the rules of all n runs.
C15_RulesAdditiveAcrossRuns ==
    /\ pc # "done" => sheet.formats = Reverse(PastRules(Len(past))) \o sheet0.formats
    /\ pc = "done" => sheet.formats = Reverse(PastRules(Len(past)) \o rules) \o sheet0.formats

\* two runs on a sheet with one red column: the sheet holds the rule twice
C15_Witness ==
    /\ pc = "done"
    /\ Len(past) = 1
    /\ header = <<REPOSITORY_NAME, "License">>
    /\ Len(past[1].rules) = 1
    /\ Len(rules) = 1
    /\ Len(sheet.formats) = 2
    /\ sheet.formats[1].endRowIndex # sheet.formats[2].endRowIndex

\* the run before this one
LastRun == past[Len(past)]

DistinctNames(batch) ==
    \A j, k \in 1..Len(batch) :
        j # k => extract_display_name(batch[j][REPOSITORY_NAME])
                    # extract_display_name(batch[k][REPOSITORY_NAME])

\* this run reconciles again the batch of the run before it
SameBatchAgain == past # <<>> /\ df = LastRun.df /\ DistinctNames(df)

\* C18: reconciling again a batch (of pairwise distinct display names) whose
\* writes have been applied appends no row, gives every record the row
\* position it had in the first run, and leaves the cell contents unchanged.
C18_SecondRunChangesNothing ==
    (SameBatchAgain /\ Reconciling) =>
        /\ Len(existing) = n_read
        /\ \A k \in Processed : row_idxs[k] = LastRun.row_idxs[k]
        /\ sheet.rows = LastRun.rows

\* two records, both appended by the first run, found again by the second
C18_Witness ==
    /\ SameBatchAgain
    /\ pc = "done"
    /\ Len(df) = 2
    /\ Len(LastRun.rows) = Len(sheet0.rows) + 2
    /\ row_idxs = LastRun.row_idxs
    /\ sheet.rows = LastRun.rows

(***************************************************************************)
(* Rows the reconciliation leaves alone                                    *)
(***************************************************************************)
\* the submitted or collected writes that address row p
WritesOnRow(p) == {m \in 1..Len(batch_body) : batch_body[m].row = p}

\* row p, as read, is too short to hold the identity column
TooShort(p) == Len(existing[p]) <= repo_col_index

\* row p, as read, carries the decoded name of no record of the batch
NamesNoRecord(p) == \A k \in 1..Len(df) : RecName(k) # RowName(p)

\* C16: an existing data row whose decoded name is the name of no fresh
\* record, and any row too short to hold the identity column, gets no cell
\* write; no write addresses the header row or a row above it; no row read is
\* deleted or moved: the rows not written are where and as they were.
C16_UnmatchedRowsUntouched ==
    Reconciling =>
        /\ \A m \in 1..Len(batch_body) : batch_body[m].row > HEADER_ROW_INDEX
        /\ \A p \in (HEADER_ROW_INDEX + 1)..n_read :
              (TooShort(p) \/ NamesNoRecord(p)) => WritesOnRow(p) = {}
        /\ Len(sheet.rows) >= n_read
        /\ \A p \in 1..n_read : WritesOnRow(p) = {} => sheet.rows[p] = existing[p]

\* a sheet of two data rows: the first too short for the identity column and
\* left as it was, the second matched and rewritten
C16_Witness ==
    /\ pc = "done"
    /\ header = <<"Notes", REPOSITORY_NAME, "License">>
    /\ n_read = HEADER_ROW_INDEX + 2
    /\ existing[HEADER_ROW_INDEX + 1] = <<OLD>>
    /\ sheet.rows[HEADER_ROW_INDEX + 1] = <<OLD>>
    /\ WritesOnRow(HEADER_ROW_INDEX + 1) = {}
    /\ WritesOnRow(HEADER_ROW_INDEX + 2) # {}
    /\ sheet.rows[HEADER_ROW_INDEX + 2] # existing[HEADER_ROW_INDEX + 2]

(***************************************************************************)
(* Two runs on the same sheet. Nothing in update_google_sheet locks the     *)
(* sheet, so the calls of another run may fall between those of this one.  *)
(* The other run's work between its reads and its write touches only its   *)
(* locals: it is one step here.                                            *)
(***************************************************************************)
\* the loop over df.iterrows(), from record k on: the rows, writes and row
\* positions it ends with
RECURSIVE ReconcileFrom(_, _, _, _, _)
ReconcileFrom(batch, k, hdr, index, acc) ==
    IF k > Len(batch)
    THEN acc
    ELSE LET repo_name == extract_display_name(batch[k][REPOSITORY_NAME])
             row_idx == RowIdx(repo_name, index, acc.existing)
         IN  ReconcileFrom(batch, k + 1, hdr, index,
                [existing |-> IF repo_name \in DOMAIN index
                              THEN acc.existing
                              ELSE Append(acc.existing, [c \in 1..Len(hdr) |-> BLANK]),
                 batch_body |-> ExtendBatch(acc.batch_body,
                                            WritesFor(batch[k], row_idx, hdr, 1)),
                 row_idxs |-> Append(acc.row_idxs, row_idx)])

\* update_google_sheet from its reads to the end of its loop, on the sheet sh
Reconcile(sh, batch) ==
    LET hdr == row_values(sh, HEADER_ROW_INDEX)
        rows == get_all_values(sh)
        index == IndexRows(SubSeq(rows, HEADER_ROW_INDEX + 1, Len(rows)), 1,
                           ListIndex(hdr, REPOSITORY_NAME), EmptyDict)
    IN  ReconcileFrom(batch, 1, hdr, index,
                      [existing |-> rows, batch_body |-> <<>>, row_idxs |-> <<>>])

RaceInit ==
    /\ CodecIdle
    /\ ExtractIdle
    /\ MainIdle
    /\ sheet \in MainSheets
    /\ sheet0 = sheet
    /\ past = <<>>
    /\ df \in BatchesUpTo(MaxRecs)
    /\ pc = "start"
    /\ header = <<>>
    /\ repo_col_index = 0
    /\ existing = <<>>
    /\ name_to_row = EmptyDict
    /\ rec_i = 0
    /\ batch_body = <<>>
    /\ rules = <<>>
    /\ n_read = 0
    /\ row_idxs = <<>>
    /\ emitted = <<>>
    /\ calls = <<>>
    /\ \E batch \in BatchesUpTo(1) :
          other = [pc |-> "start", df |-> batch, header |-> <<>>, n_read |-> 0,
                   batch_body |-> <<>>, row_idxs |-> <<>>]

\* a plausible slip: the other run works from the sheet as it was at first
OtherRead_Stale ==
    /\ other.pc = "start"
    /\ REPOSITORY_NAME \in Range(row_values(sheet0, HEADER_ROW_INDEX))
    /\ LET out == Reconcile(sheet0, other.df)
       IN  other' = [other EXCEPT !.pc = "read",
                                  !.header = row_values(sheet0, HEADER_ROW_INDEX),
                                  !.n_read = Len(get_all_values(sheet0)),
                                  !.batch_body = out.batch_body,
                                  !.row_idxs = out.row_idxs]
    /\ calls' = calls \o <<"other.row_values", "other.get_all_values">>
    /\ UNCHANGED <<sheet, df, pc, header, repo_col_index, existing, name_to_row, rec_i,
                   batch_body, rules, n_read, row_idxs, emitted, sheet0, past>>
    /\ UNCHANGED <<codec_vars, extract_vars, main_vars>>

\* the other run reads the header and the rows and collects its writes
OtherRead ==
    /\ other.pc = "start"
    /\ REPOSITORY_NAME \in Range(row_values(sheet, HEADER_ROW_INDEX))
    /\ LET out == Reconcile(sheet, other.df)
       IN  other' = [other EXCEPT !.pc = "read",
                                  !.header = row_values(sheet, HEADER_ROW_INDEX),
                                  !.n_read = Len(get_all_values(sheet)),
                                  !.batch_body = out.batch_body,
                                  !.row_idxs = out.row_idxs]
    /\ calls' = calls \o <<"other.row_values", "other.get_all_values">>
    /\ UNCHANGED <<sheet, df, pc, header, repo_col_index, existing, name_to_row, rec_i,
                   batch_body, rules, n_read, row_idxs, emitted, sheet0, past>>
    /\ UNCHANGED <<codec_vars, extract_vars, main_vars>>

\* the other run finds no identity column and raises
OtherReadMissingColumn ==
    /\ other.pc = "start"
    /\ REPOSITORY_NAME \notin Range(row_values(sheet, HEADER_ROW_INDEX))
    /\ other' = [other EXCEPT !.pc = "raised",
                              !.header = row_values(sheet, HEADER_ROW_INDEX)]
    /\ calls' = Append(calls, "other.row_values")
    /\ UNCHANGED <<sheet, df, pc, header, repo_col_index, existing, name_to_row, rec_i,
                   batch_body, rules, n_read, row_idxs, emitted, sheet0, past>>
    /\ UNCHANGED <<codec_vars, extract_vars, main_vars>>

\* the other run submits its cell writes
OtherWrite ==
    /\ other.pc = "read"
    /\ sheet' = [sheet EXCEPT !.rows = ApplyWrites(sheet.rows, other.batch_body)]
    /\ other' = [other EXCEPT !.pc = "written"]
    /\ calls' = Append(calls, "other.values_batch_update")
    /\ UNCHANGED <<df, pc, header, repo_col_index, existing, name_to_row, rec_i,
                   batch_body, rules, n_read, row_idxs, emitted, sheet0, past>>
    /\ UNCHANGED <<codec_vars, extract_vars, main_vars>>

\* the other run submits its formatting rules
OtherFormat ==
    /\ other.pc = "written"
    /\ sheet' = [sheet EXCEPT !.formats =
                    InsertRules(sheet.formats,
                        RulesFor(red_columns, 1, RED_FILL, other.header, Len(other.df))
                        \o RulesFor(orange_columns, 1, ORANGE_FILL, other.header,
                                    Len(other.df)))]
    /\ other' = [other EXCEPT !.pc = "done"]
    /\ calls' = Append(calls, "other.batch_update")
    /\ UNCHANGED <<df, pc, header, repo_col_index, existing, name_to_row, rec_i,
                   batch_body, rules, n_read, row_idxs, emitted, sheet0, past>>
    /\ UNCHANGED <<codec_vars, extract_vars, main_vars>>

RaceNext ==
    \/ ReadHeader
    \/ ReadHeaderMissingColumn
    \/ ReadRows
    \/ ProcessRecord
    \/ SubmitWrites
    \/ SubmitFormat
    \/ OtherRead
    \/ OtherReadMissingColumn
    \/ OtherWrite
    \/ OtherFormat

SpecRace == RaceInit /\ [][RaceNext]_vars

(***************************************************************************)
(* Properties of two runs on the same sheet                                *)
(***************************************************************************)
Made(c) == c \in Range(calls)

\* when the call was made (each run makes it once)
Pos(c) == CHOOSE m \in 1..Len(calls) : calls[m] = c

BothWrote == Made("values_batch_update") /\ Made("other.values_batch_update")

\* single-runner execution: one run read the rows after the other's writes
Serial ==
    /\ BothWrote
    /\ \/ Pos("other.get_all_values") > Pos("values_batch_update")
       \/ Pos("get_all_values") > Pos("other.values_batch_update")

\* the runs interleaved: both read the rows before either wrote
Overlapped == BothWrote /\ ~Serial

OtherName(j) == extract_display_name(other.df[j][REPOSITORY_NAME])

\* record k of this run and record j of the other, of different names and
\* both unmatched, were given the same new row position
Collide(k, j) ==
    /\ row_idxs[k] > n_read
    /\ other.row_idxs[j] > other.n_read
    /\ row_idxs[k] = other.row_idxs[j]
    /\ RecName(k) # OtherName(j)

Collision == \E k \in 1..Len(row_idxs) : \E j \in 1..Len(other.row_idxs) : Collide(k, j)

\* some row of the sheet carries the name
NameOnSheet(name) ==
    \E p \in (HEADER_ROW_INDEX + 1)..Len(sheet.rows) :
        /\ Len(sheet.rows[p]) > repo_col_index
        /\ extract_display_name(sheet.rows[p][repo_col_index + 1]) = name

\* this run wrote after the other
WroteLast == Pos("values_batch_update") > Pos("other.values_batch_update")

\* C17: in single-runner execution (one run reads after the other's writes)
\* two unmatched repositories of different names never get the same new row
\* and every repository of both runs ends on the sheet; the same row is given
\* to both only when the two runs both read before either wrote, and then
\* the row appended by the run that wrote first is overwritten by the other.
C17_CollisionOnlyWhenRunsOverlap ==
    BothWrote =>
        /\ Serial =>
              /\ ~Collision
              /\ \A k \in 1..Len(df) : NameOnSheet(RecName(k))
              /\ \A j \in 1..Len(other.df) : NameOnSheet(OtherName(j))
        /\ Collision => Overlapped
        /\ \A k \in 1..Len(row_idxs) : \A j \in 1..Len(other.row_idxs) :
              Collide(k, j) =>
                  sheet.rows[row_idxs[k]][repo_col_index + 1]
                      = (IF WroteLast THEN df[k][REPOSITORY_NAME]
                         ELSE other.df[j][REPOSITORY_NAME])

\* both runs read an empty sheet, each appended its repository on the first
\* data row, and the repository of the run that wrote first is gone
C17_Witness ==
    /\ pc = "done"
    /\ other.pc = "done"
    /\ Overlapped
    /\ n_read = HEADER_ROW_INDEX
    /\ Len(df) = 1
    /\ Collide(1, 1)
    /\ WroteLast
    /\ ~NameOnSheet(OtherName(1))
    /\ NameOnSheet(RecName(1))

====
